---- MODULE Spec2Model ----
(***************************************************************************)
(* Model of the per-turn orchestration of src/main.py: one Streamlit       *)
(* session whose script run appends the user message, calls the gateway    *)
(* (client.chat), dispatches the tool calls of the response one by one,    *)
(* merges their formatted results and appends one assistant message.       *)
(*                                                                         *)
(* Strings are TLA+ strings; Len, \o and SubSeq act on them character by   *)
(* character.  The module is ASCII, so the magnifier emoji of the heading  *)
(* (U+1F50D, main.py line 110) is written ":mag:".                         *)
(***************************************************************************)
EXTENDS Integers, Sequences, FiniteSets, TLC

VARIABLES
    api_key,            \* TRUE iff OLLAMA_API_KEY is set (line 20)
    messages,           \* st.session_state.messages
    pc,                 \* position of the script run
    user_input,         \* text returned by st.chat_input (line 178)
    enable_web_search,  \* toggle (line 141)
    show_thinking,      \* toggle (line 147)
    api_messages,       \* request list of the turn (line 66)
    tools,              \* tools passed to client.chat (line 69)
    assistant_message,  \* message under construction (line 82)
    response,           \* response.message of client.chat (line 74)
    idx,                \* position of the for loop of line 92
    tool_results,       \* list of formatted blocks (line 90)
    trace,              \* history variable: what each tool call of the turn did
    before,             \* history variable: messages before the turn's submission
    outcome,            \* history variable: how the last turn ended
    submitted,          \* history variable: texts submitted since the history was empty
    allOk,              \* history variable: every gateway call since then succeeded
    turns,              \* number of submissions so far
    calls               \* number of tool calls received so far

vars == <<api_key, messages, pc, user_input, enable_web_search, show_thinking,
          api_messages, tools, response, assistant_message, idx,
          tool_results, trace, before, outcome, submitted, allOk, turns, calls>>

(***************************************************************************)
(* Bounds of the exploration.                                              *)
(***************************************************************************)
MaxTurns == 2
MaxCalls == 2

(***************************************************************************)
(* Program constant: the truncation length of a tool result.               *)
(***************************************************************************)
TruncLimit == 2000

----------------------------------------------------------------------------
(***************************************************************************)
(* Values.                                                                 *)
(***************************************************************************)
RECURSIVE Rep(_, _)
Rep(s, n) ==
    IF n = 0 THEN ""
    ELSE IF n % 2 = 0 THEN LET h == Rep(s, n \div 2) IN h \o h
    ELSE s \o Rep(s, n - 1)

Last(s) == s[Len(s)]

\* Python's None and a present value
None == [some |-> FALSE, val |-> ""]
Some(v) == [some |-> TRUE, val |-> v]

\* truth value of an optional string (None and "" are falsy)
Truthy(o) == o.some /\ o.val # ""

\* `o or ""'
OrEmpty(o) == IF Truthy(o) THEN o.val ELSE ""

\* the text of the i-th submission of the session
UserText(i) == "q" \o ToString(i)
Times == {"Friday, November 06, 2026 at 03:30 AM"}

\* attributes of the gateway client that the source itself uses
ClientAttrs == {"web_search", "web_fetch", "chat"}
\* names a response may carry: the client's attributes and a name it lacks
ToolNames == ClientAttrs \cup {"foo"}

\* raw values (a string s or an integer n) and what each attribute of the
\* client may return when called: a text longer than TruncLimit, a text of
\* exactly TruncLimit characters, a short value that is not a string
StrValue(s) == [t |-> "str", s |-> s, n |-> 0]
IntValue(n) == [t |-> "int", s |-> "", n |-> n]
LongText == Rep("a", TruncLimit - 1) \o "bc"
ExactText == Rep("a", TruncLimit - 1) \o "b"
Returns(name) ==
    CASE name = "web_search" -> { StrValue(LongText) }
      [] name = "web_fetch" -> { StrValue(ExactText) }
      [] OTHER -> { IntValue(25) }
\* which of them may raise (the handling of line 106 does not depend on the
\* name), and the messages of the errors
MayRaise(name) == name = "web_search"
Errors == {"timeout"}

\* str(x)
str(x) == IF x.t = "int" THEN ToString(x.n) ELSE x.s

----------------------------------------------------------------------------
(***************************************************************************)
(* Pure parts of main.py.                                                  *)
(***************************************************************************)
UserMessage(text) == [role |-> "user", content |-> text]

SystemMessage(current_time) ==
    [role |-> "system",
     content |-> "Current date and time: " \o current_time
        \o ". When users ask for 'latest', 'recent', 'today', or 'current' information, use web search with appropriate date context."]

\* mutant of ApiMessages: the request is built from the history without its
\* last entry
ApiMessagesWithoutLatest(current_time, hist) ==
    <<SystemMessage(current_time)>>
        \o [i \in 1..(Len(hist) - 1) |-> [role |-> hist[i].role, content |-> hist[i].content]]

\* mutant of ApiMessages: the stored messages are sent as they are
ApiMessagesUnreduced(current_time, hist) ==
    <<SystemMessage(current_time)>> \o hist

ApiMessages(current_time, hist) ==
    <<SystemMessage(current_time)>>
        \o [i \in 1..Len(hist) |-> [role |-> hist[i].role, content |-> hist[i].content]]

\* mutant of HistoryAfterCompose: the system message is stored in the history
HistoryWithSystem(hist, system_message) == <<system_message>> \o hist

\* lines 60-67: system_message and api_messages are locals; composing the
\* request only reads st.session_state.messages
HistoryAfterCompose(hist, system_message) == hist

get_available_tools(enabled) ==
    IF enabled THEN <<"web_search", "web_fetch">> ELSE <<>>

\* mutant of BuildAssistant: the thinking trace is stored whenever it came back
BuildAssistantKeepsThinking(content, thinking, show) ==
    IF Truthy(thinking)
    THEN [role |-> "assistant", content |-> OrEmpty(content), thinking |-> thinking.val]
    ELSE [role |-> "assistant", content |-> OrEmpty(content)]

\* lines 82-86
BuildAssistant(content, thinking, show) ==
    IF Truthy(thinking) /\ show
    THEN [role |-> "assistant", content |-> OrEmpty(content), thinking |-> thinking.val]
    ELSE [role |-> "assistant", content |-> OrEmpty(content)]

\* getattr(client, function_name, None) is not None
Resolves(function_name) == function_name \in ClientAttrs

TruncationMarker == "...\n\n*[Result truncated - showing first 2000 characters]*"

\* mutant of FormatResult: the length test is off by one
FormatResultOffByOne(function_name, result_str) ==
    IF Len(result_str) >= TruncLimit
    THEN "**" \o function_name \o "**:\n" \o SubSeq(result_str, 1, TruncLimit) \o TruncationMarker
    ELSE "**" \o function_name \o "**:\n" \o result_str

FormatResult(function_name, result_str) ==
    IF Len(result_str) > TruncLimit
    THEN "**" \o function_name \o "**:\n" \o SubSeq(result_str, 1, TruncLimit) \o TruncationMarker
    ELSE "**" \o function_name \o "**:\n" \o result_str

FormatError(function_name, e) == "**" \o function_name \o " Error**: " \o e

\* mutant of AppendResult: the block is put in front
PrependResult(results, block) == <<block>> \o results

AppendResult(results, block) == Append(results, block)

RECURSIVE Join(_, _)
Join(sep, seq) ==
    IF Len(seq) = 0 THEN ""
    ELSE IF Len(seq) = 1 THEN seq[1]
    ELSE seq[1] \o sep \o Join(sep, Tail(seq))

ToolResultsHeading == "\n\n---\n\n**:mag: Tool Results:**\n\n"
BlockSeparator == "\n\n---\n\n"

\* mutant of MergeContent: the results replace the model's text
MergeContentReplaces(am, results) ==
    IF Len(results) > 0
    THEN [am EXCEPT !.content = ToolResultsHeading \o Join(BlockSeparator, results)]
    ELSE am

\* mutant of MergeContent: the heading is added whenever there were tool calls
MergeContentAlways(am, results) ==
    [am EXCEPT !.content = @ \o ToolResultsHeading \o Join(BlockSeparator, results)]

\* lines 109-110
MergeContent(am, results) ==
    IF Len(results) > 0
    THEN [am EXCEPT !.content = @ \o ToolResultsHeading \o Join(BlockSeparator, results)]
    ELSE am

\* mutant of AppendAssistant: a reply without text is not stored
AppendAssistantNonEmpty(msgs, am) == IF am.content = "" THEN msgs ELSE Append(msgs, am)

\* mutant of AppendAssistant: the reply is inserted at the front
AppendAssistantFirst(msgs, am) == <<am>> \o msgs

\* line 118
AppendAssistant(msgs, am) == Append(msgs, am)

\* mutant of OnChatError: the error text is stored as a reply
OnChatErrorAppends(msgs) ==
    Append(msgs, [role |-> "assistant", content |-> "Error getting AI response"])

\* mutant of OnChatError: the user message of the failed turn is taken back
OnChatErrorRollsBack(msgs) == SubSeq(msgs, 1, Len(msgs) - 1)

\* lines 120-121: the error is shown, the history is left alone
OnChatError(msgs) == msgs

\* mutant of ScriptAtInput: input is read at any position of the script
ScriptAnywhere == TRUE

\* the script reads st.chat_input (line 178) and the clear button (line 156)
\* only while it is not inside process_ai_response
ScriptAtInput == pc = "idle"

----------------------------------------------------------------------------
NoMessage == [role |-> "none", content |-> ""]
NoResponse == [content |-> None, thinking |-> None, tool_calls |-> <<>>]

\* response.message.tool_calls
tool_calls == response.tool_calls

Init ==
    /\ api_key \in BOOLEAN
    /\ messages = <<>>
    /\ pc = "idle"
    /\ user_input = ""
    /\ enable_web_search = TRUE
    /\ show_thinking = FALSE
    /\ api_messages = <<>>
    /\ tools = <<>>
    /\ assistant_message = NoMessage
    /\ response = NoResponse
    /\ idx = 0
    /\ tool_results = <<>>
    /\ trace = <<>>
    /\ before = <<>>
    /\ outcome = "none"
    /\ submitted = <<>>
    /\ allOk = TRUE
    /\ turns = 0
    /\ calls = 0

\* lines 178-180, 188, 59-70 with the credential set: the user message is
\* appended, the request is composed and client.chat is called
Submit ==
    /\ ScriptAtInput
    /\ api_key
    /\ turns < MaxTurns
    /\ \E ews \in BOOLEAN, st \in BOOLEAN, now \in Times :
        LET text == UserText(turns + 1) IN
        /\ user_input' = text
        /\ enable_web_search' = ews
        /\ show_thinking' = st
        /\ messages' = HistoryAfterCompose(Append(messages, UserMessage(text)),
                                            SystemMessage(now))
        /\ api_messages' = ApiMessages(now, Append(messages, UserMessage(text)))
        /\ tools' = get_available_tools(ews)
        /\ before' = messages
        /\ submitted' = Append(submitted, text)
    /\ pc' = "awaiting"
    /\ assistant_message' = NoMessage
    /\ response' = NoResponse
    /\ idx' = 0
    /\ tool_results' = <<>>
    /\ trace' = <<>>
    /\ outcome' = "running"
    /\ turns' = turns + 1
    /\ UNCHANGED <<api_key, allOk, calls>>

\* lines 178-180, 188, 59-69 without the credential: the user message is
\* appended, then get_available_tools -> get_ollama_client calls st.stop(),
\* which ends the script run (lines 21-23)
SubmitStopped ==
    /\ ScriptAtInput
    /\ ~api_key
    /\ turns < MaxTurns
    /\ LET text == UserText(turns + 1) IN
        /\ messages' = Append(messages, UserMessage(text))
        /\ submitted' = Append(submitted, text)
    /\ pc' = "idle"
    /\ before' = messages
    /\ outcome' = "stopped"
    /\ allOk' = FALSE
    /\ turns' = turns + 1
    /\ UNCHANGED <<api_key, user_input, enable_web_search, show_thinking,
                   api_messages, tools, response, assistant_message, idx,
                   tool_results, trace, calls>>

\* what client.chat may return (lines 74-79)
Contents == {None, Some("Hello")}
Thinkings == {None, Some(""), Some("Hm")}
ToolCall(n) == [name |-> n]
ToolCallSeqs(max) ==
    UNION { [1..n -> {ToolCall(t) : t \in ToolNames}] : n \in 0..max }

\* lines 74-89 and, for a response without tool calls, lines 112-118:
\* client.chat returns
ChatReturns ==
    /\ pc = "awaiting"
    /\ \E content \in Contents, thinking \in Thinkings,
          tcs \in ToolCallSeqs(MaxCalls - calls) :
        /\ assistant_message' = BuildAssistant(content, thinking, show_thinking)
        /\ response' = [content |-> content, thinking |-> thinking, tool_calls |-> tcs]
        /\ calls' = calls + Len(tcs)
        /\ IF Len(tcs) > 0
           THEN /\ pc' = "dispatching"
                /\ idx' = 1
                /\ outcome' = outcome
                /\ messages' = messages
           ELSE /\ pc' = "done"
                /\ idx' = idx
                /\ outcome' = "committed"
                /\ messages' = AppendAssistant(messages, assistant_message')
    /\ UNCHANGED <<api_key, user_input, enable_web_search, show_thinking,
                   api_messages, tools, tool_results, trace, before,
                   submitted, allOk, turns>>

\* lines 74-79, 120-121: client.chat raises
ChatRaises ==
    /\ pc = "awaiting"
    /\ messages' = OnChatError(messages)
    /\ pc' = "done"
    /\ outcome' = "failed"
    /\ allOk' = FALSE
    /\ UNCHANGED <<api_key, user_input, enable_web_search, show_thinking,
                   api_messages, tools, response, assistant_message, idx,
                   tool_results, trace, before, submitted, turns, calls>>

\* what the loop body does with one tool call
Skipped(n) == [name |-> n, kind |-> "skipped", res |-> "", block |-> ""]
Returned(n, v, b) == [name |-> n, kind |-> "returned", res |-> str(v), block |-> b]
Raised(n, e, b) == [name |-> n, kind |-> "raised", res |-> e, block |-> b]

\* lines 92-107: one iteration of the loop over the tool calls
ToolStep ==
    /\ pc = "dispatching"
    /\ idx <= Len(tool_calls)
    /\ LET function_name == tool_calls[idx].name IN
        IF Resolves(function_name)
        THEN \/ \E result \in Returns(function_name) :
                  LET formatted_result == FormatResult(function_name, str(result)) IN
                  /\ tool_results' = AppendResult(tool_results, formatted_result)
                  /\ trace' = Append(trace, Returned(function_name, result, formatted_result))
             \/ \E e \in Errors :
                  LET block == FormatError(function_name, e) IN
                  /\ MayRaise(function_name)
                  /\ tool_results' = AppendResult(tool_results, block)
                  /\ trace' = Append(trace, Raised(function_name, e, block))
        ELSE /\ tool_results' = tool_results
             /\ trace' = Append(trace, Skipped(function_name))
    /\ idx' = idx + 1
    /\ UNCHANGED <<api_key, messages, pc, user_input, enable_web_search,
                   show_thinking, api_messages, tools, assistant_message,
                   response, before, outcome, submitted, allOk, turns, calls>>

\* lines 109-118: the loop is over; the results are merged into the content
\* and the assistant message is appended
Commit ==
    /\ pc = "dispatching"
    /\ idx > Len(tool_calls)
    /\ assistant_message' = MergeContent(assistant_message, tool_results)
    /\ messages' = AppendAssistant(messages, assistant_message')
    /\ pc' = "done"
    /\ outcome' = "committed"
    /\ UNCHANGED <<api_key, user_input, enable_web_search, show_thinking,
                   api_messages, tools, response, idx, tool_results, trace,
                   before, submitted, allOk, turns, calls>>

\* line 190: process_ai_response has returned; st.rerun() ends the script run
\* and its local variables
Rerun ==
    /\ pc = "done"
    /\ pc' = "idle"
    /\ user_input' = ""
    /\ enable_web_search' = TRUE
    /\ show_thinking' = FALSE
    /\ api_messages' = <<>>
    /\ tools' = <<>>
    /\ assistant_message' = NoMessage
    /\ response' = NoResponse
    /\ idx' = 0
    /\ tool_results' = <<>>
    /\ trace' = <<>>
    /\ before' = <<>>
    /\ outcome' = "none"
    /\ UNCHANGED <<api_key, messages, submitted, allOk, turns, calls>>

\* lines 156-158: the clear button
Clear ==
    /\ ScriptAtInput
    /\ messages # <<>>
    /\ messages' = <<>>
    /\ before' = <<>>
    /\ outcome' = "none"
    /\ submitted' = <<>>
    /\ allOk' = TRUE
    /\ UNCHANGED <<api_key, pc, user_input, enable_web_search, show_thinking,
                   api_messages, tools, response, assistant_message, idx,
                   tool_results, trace, turns, calls>>

Next ==
    \/ Submit
    \/ SubmitStopped
    \/ ChatReturns
    \/ ChatRaises
    \/ ToolStep
    \/ Commit
    \/ Rerun
    \/ Clear

Spec == Init /\ [][Next]_vars

\* The script run goes on by itself: the blocking calls of lines 74 and 98
\* return or raise, after which the statements that follow are executed.
\* Submitting and clearing are the user's choice and carry no fairness.
FairSpec ==
    /\ Spec
    /\ WF_vars(ChatReturns \/ ChatRaises)
    /\ WF_vars(ToolStep)
    /\ WF_vars(Commit)
    /\ WF_vars(Rerun)

----------------------------------------------------------------------------
TypeOK ==
    /\ pc \in {"idle", "awaiting", "dispatching", "done"}
    /\ outcome \in {"none", "running", "committed", "failed", "stopped"}
    /\ turns \in 0..MaxTurns
    /\ calls \in 0..MaxCalls
    /\ Len(trace) <= Len(tool_calls)

----------------------------------------------------------------------------
(***************************************************************************)
(* Helpers of the properties.                                              *)
(***************************************************************************)
InFlight == pc \in {"awaiting", "dispatching"}
Committed == pc = "done" /\ outcome = "committed"

StartsWith(s, prefix) ==
    Len(s) >= Len(prefix) /\ SubSeq(s, 1, Len(prefix)) = prefix

Contains(s, sub) ==
    \E i \in 1..(Len(s) - Len(sub) + 1) : SubSeq(s, i, i + Len(sub) - 1) = sub

\* the model's textual content of the turn
ModelText == OrEmpty(response.content)

\* number of characters of the committed content before the block of call i
RECURSIVE BlockStart(_)
BlockStart(i) ==
    IF i = 1 THEN Len(ModelText) + Len(ToolResultsHeading)
    ELSE IF trace[i - 1].block = "" THEN BlockStart(i - 1)
    ELSE BlockStart(i - 1) + Len(trace[i - 1].block) + Len(BlockSeparator)

----------------------------------------------------------------------------
\* C1: from an empty history, after N turns whose gateway calls all succeeded
\* (whatever the tool calls did), the history has exactly 2N entries that
\* alternate user, assistant, the i-th user entry holding the i-th text.
C1_SuccessfulTurnsAlternate ==
    (pc \in {"idle", "done"} /\ allOk) =>
        /\ Len(messages) = 2 * Len(submitted)
        /\ \A i \in 1..Len(submitted) :
            /\ messages[2 * i - 1] = UserMessage(submitted[i])
            /\ messages[2 * i].role = "assistant"

C1_Witness ==
    /\ pc = "done"
    /\ allOk
    /\ Len(submitted) = 2
    /\ \E i \in 1..Len(trace) : trace[i].kind = "raised"
    /\ \E i \in 1..Len(trace) : trace[i].kind = "returned"

\* C2: when the gateway call of a turn raises, the history after the turn is
\* the history before it plus the turn's user message: no assistant entry,
\* earlier entries unchanged.
C2_GatewayFailureKeepsUserOnly ==
    (pc = "done" /\ outcome = "failed") =>
        messages = Append(before, UserMessage(user_input))

C2_Witness ==
    /\ pc = "done"
    /\ outcome = "failed"
    /\ Len(before) = 2
    /\ Last(messages) = UserMessage(user_input)

\* C3: every tool call whose name the client cannot resolve gives a block
\* "**<name> Error**: <errorText>" in the committed assistant content, and
\* the turn commits exactly one assistant message.  (Stated for the turns
\* with web search enabled, where the two web tools were offered.)
C3_UnresolvedNameYieldsErrorBlock ==
    (Committed /\ enable_web_search) =>
        /\ messages = Append(Append(before, UserMessage(user_input)), assistant_message)
        /\ \A i \in 1..Len(tool_calls) :
            ~Resolves(tool_calls[i].name) =>
                Contains(Last(messages).content,
                         "**" \o tool_calls[i].name \o " Error**: ")

\* C4: a tool call is resolved to a capability and invoked only if its name
\* is web_search or web_fetch.
C4_OnlyRegisteredNamesInvoked ==
    \A i \in 1..Len(trace) :
        trace[i].kind # "skipped" => trace[i].name \in {"web_search", "web_fetch"}

\* C5: with web search disabled, the tools passed to the gateway are empty,
\* no capability is invoked during the turn, and the committed content is the
\* model's textual content exactly.
C5_DisabledSearchInvokesNothing ==
    (~enable_web_search /\ pc \in {"awaiting", "dispatching", "done"}) =>
        /\ tools = <<>>
        /\ \A i \in 1..Len(trace) : trace[i].kind = "skipped"
        /\ Committed => Last(messages).content = ModelText

\* C6: when the invocation of one tool call raises, that call alone yields
\* "**<name> Error**: <errorText>", every other call of the response is still
\* invoked and yields its own block, and the turn commits one assistant
\* message.  (Stated for the turns with web search enabled.)
C6_RaisedCallIsIsolated ==
    (pc = "done" /\ enable_web_search
        /\ \E i \in 1..Len(trace) : trace[i].kind = "raised") =>
        /\ outcome = "committed"
        /\ messages = Append(Append(before, UserMessage(user_input)), assistant_message)
        /\ Len(trace) = Len(tool_calls)
        /\ \A i \in 1..Len(trace) :
            /\ trace[i].kind = "raised" =>
                trace[i].block = "**" \o trace[i].name \o " Error**: " \o trace[i].res
            /\ trace[i].kind \in {"raised", "returned"}
            /\ trace[i].block # ""
            /\ Contains(Last(messages).content, trace[i].block)

\* C7: without the gateway credential no user message is ever appended to
\* the history.
C7_NoCredentialNoUserMessage ==
    ~api_key => messages = <<>>

C9_ResultBlockTruncatedAt2000 ==
    \A i \in 1..Len(trace) :
        trace[i].kind = "returned" =>
            LET s == trace[i].res
                head == "**" \o trace[i].name \o "**:\n"
                k == Cardinality({j \in 1..i : trace[j].block # ""})
            IN  /\ tool_results[k] = trace[i].block
                /\ IF Len(s) <= 2000
                   THEN trace[i].block = head \o s
                   ELSE /\ trace[i].block = head \o SubSeq(s, 1, 2000)
                            \o "...\n\n*[Result truncated - showing first 2000 characters]*"
                        /\ Len(trace[i].block) = Len(head) + 2000 + 57

C9_Witness ==
    /\ Committed
    /\ \E i \in 1..Len(trace) : trace[i].kind = "returned" /\ Len(trace[i].res) = 2000
    /\ \E i \in 1..Len(trace) : trace[i].kind = "returned" /\ Len(trace[i].res) = 2001

\* C10: the result blocks of the committed content are in the order in which
\* the tool calls were received, whichever calls succeed or fail.
C10_BlocksInCallOrder ==
    Committed =>
        LET content == Last(messages).content IN
        \A i \in 1..Len(trace) :
            trace[i].block # "" =>
                /\ SubSeq(content, BlockStart(i) + 1, BlockStart(i) + Len(trace[i].block))
                       = trace[i].block
                /\ \A j \in 1..(i - 1) :
                       trace[j].block # "" => BlockStart(j) < BlockStart(i)

C10_Witness ==
    /\ Committed
    /\ Len(trace) = 2
    /\ trace[1].kind = "raised"
    /\ trace[2].kind = "returned"
    /\ trace[1].name # trace[2].name

IsPrefix(s, t) == Len(s) <= Len(t) /\ SubSeq(t, 1, Len(s)) = s

\* C11: no entry of the conversation history has role system; the system
\* message of a turn is in the request only.
C11_NoSystemInHistory ==
    \A i \in 1..Len(messages) : messages[i].role # "system"

C11_Witness ==
    /\ pc = "dispatching"
    /\ Len(messages) = 3
    /\ api_messages[1].role = "system"
    /\ Len(api_messages) = 4

\* C12: every step other than the clear action leaves the existing history
\* entries unchanged and in place (the history before the step is a prefix
\* of the history after it); the clear action empties the history.
C12_HistoryOnlyGrowsUnlessCleared ==
    [][ IF Clear THEN messages' = <<>> ELSE IsPrefix(messages, messages') ]_vars

C12_Witness ==
    /\ pc = "done"
    /\ outcome = "committed"
    /\ Len(messages) = 3
    /\ messages[1].role = "user"
    /\ messages[2].role = "user"
    /\ IsPrefix(before, messages)

\* C13: the committed assistant message has a thinking field if and only if
\* thinking was requested for the turn and the gateway returned a non-empty
\* thinking trace, and the field then holds that trace.
C13_ThinkingOnlyIfRequestedAndReturned ==
    Committed =>
        LET am == Last(messages) IN
        /\ ("thinking" \in DOMAIN am)
              <=> (show_thinking /\ response.thinking.some /\ response.thinking.val # "")
        /\ "thinking" \in DOMAIN am => am.thinking = response.thinking.val
        /\ DOMAIN am \subseteq {"role", "content", "thinking"}

C13_Witness ==
    /\ Committed
    /\ Len(messages) = 4
    /\ "thinking" \in DOMAIN messages[4]
    /\ "thinking" \notin DOMAIN messages[2]

\* C14: the request of a turn is the system message followed by the history
\* entries in order, each reduced to its role and content: no thinking field
\* is sent, also when earlier turns stored thinking traces.
C14_RequestCarriesRoleAndContentOnly ==
    pc \in {"awaiting", "dispatching", "done"} =>
        LET hist == Append(before, UserMessage(user_input)) IN
        /\ Len(api_messages) = Len(hist) + 1
        /\ api_messages[1].role = "system"
        /\ \A i \in 1..Len(api_messages) : DOMAIN api_messages[i] = {"role", "content"}
        /\ \A i \in 1..Len(hist) :
            /\ api_messages[i + 1].role = hist[i].role
            /\ api_messages[i + 1].content = hist[i].content

C14_Witness ==
    /\ pc = "awaiting"
    /\ Len(before) = 2
    /\ "thinking" \in DOMAIN before[2]
    /\ Len(api_messages) = 4

\* the blocks of the calls i..Len(trace) that gave one, each after the first
\* preceded by the "---" separator
RECURSIVE BlocksFrom(_, _)
BlocksFrom(i, first) ==
    IF i > Len(trace) THEN ""
    ELSE IF trace[i].block = "" THEN BlocksFrom(i + 1, first)
    ELSE (IF first THEN "" ELSE "\n\n---\n\n") \o trace[i].block
            \o BlocksFrom(i + 1, FALSE)

\* C15: with at least one result block, the committed content is the model's
\* textual content ("" when it returned none), the blank-line-delimited "---"
\* divider, the Tool Results heading and the blocks joined with "---"; the
\* model's content is an unaltered prefix.
C15_ContentIsTextHeadingBlocks ==
    (Committed /\ Len(tool_results) > 0) =>
        LET content == Last(messages).content
            text == IF response.content.some THEN response.content.val ELSE ""
        IN  /\ content = text \o "\n\n---\n\n" \o "**:mag: Tool Results:**\n\n"
                            \o BlocksFrom(1, TRUE)
            /\ SubSeq(content, 1, Len(text)) = text

C15_Witness ==
    /\ Committed
    /\ Len(tool_results) = 2
    /\ response.content = None
    /\ Last(messages).content =
          "\n\n---\n\n**:mag: Tool Results:**\n\n**web_search Error**: timeout\n\n---\n\n**chat**:\n25"

\* C17: when a response has tool calls and none of them gives a block (no
\* name resolves), the committed content is the model's textual content
\* unchanged, without divider or heading, and one assistant message is
\* committed.
C17_NoBlockNoHeading ==
    (Committed /\ Len(tool_calls) > 0
        /\ \A i \in 1..Len(tool_calls) : ~Resolves(tool_calls[i].name)) =>
        /\ Last(messages).content = ModelText
        /\ ~Contains(Last(messages).content, "Tool Results")
        /\ messages = Append(Append(before, UserMessage(user_input)), assistant_message)
        /\ Last(messages).role = "assistant"

C17_Witness ==
    /\ Committed
    /\ Len(tool_calls) = 2
    /\ tool_calls[1].name = "foo"
    /\ tool_calls[2].name = "foo"
    /\ Last(messages).content = "Hello"

\* the contents of the user entries of a list of messages, in order
UserContents(seq) ==
    LET us == SelectSeq(seq, LAMBDA m : m.role = "user")
    IN  [i \in 1..Len(us) |-> us[i].content]

\* C18: the request of a turn has exactly one system message, at its first
\* position, and ends with the user message just submitted; it holds every
\* user message appended since the last clear, those of failed turns
\* included, so the request after a failed turn has two consecutive user
\* entries.
C18_RequestHoldsEveryUserMessage ==
    pc \in {"awaiting", "dispatching", "done"} =>
        LET n == Len(api_messages) IN
        /\ n >= 2
        /\ api_messages[1].role = "system"
        /\ \A i \in 2..n : api_messages[i].role # "system"
        /\ api_messages[n] = UserMessage(user_input)
        /\ UserContents(api_messages) = submitted
        /\ (Len(before) > 0 /\ Last(before).role = "user") =>
              (api_messages[n - 1].role = "user" /\ api_messages[n].role = "user")
        /\ allOk => \A i \in 2..(n - 1) :
                        ~(api_messages[i].role = "user" /\ api_messages[i + 1].role = "user")

C18_Witness ==
    /\ pc = "awaiting"
    /\ ~allOk
    /\ Len(api_messages) = 3
    /\ api_messages[2] = UserMessage("q1")
    /\ api_messages[3] = UserMessage("q2")

\* C19: in every reachable state every assistant entry of the history is
\* immediately preceded by a user entry, the first entry is a user entry,
\* and there are no more assistant entries than user entries.
C19_AssistantFollowsUser ==
    /\ \A i \in 1..Len(messages) :
          messages[i].role = "assistant" => (i > 1 /\ messages[i - 1].role = "user")
    /\ Len(messages) > 0 => messages[1].role = "user"
    /\ Cardinality({i \in 1..Len(messages) : messages[i].role = "assistant"})
          <= Cardinality({i \in 1..Len(messages) : messages[i].role = "user"})

C19_Witness ==
    /\ pc = "idle"
    /\ Len(messages) = 3
    /\ messages[1].role = "user"
    /\ messages[2].role = "user"
    /\ messages[3].role = "assistant"

\* C16: when the gateway call and every tool invocation return or raise,
\* every submitted turn returns to idle, and it does so either after
\* committing exactly one assistant message or after a reported failure with
\* no assistant message; it never stays awaiting the model or dispatching
\* tools forever.
C16_TurnReturnsToIdle ==
    /\ (pc # "idle") ~> (pc = "idle")
    /\ [][ (pc # "idle" /\ pc' = "idle") =>
             /\ pc = "done"
             /\ messages' = messages
             /\ \/ /\ outcome = "committed"
                   /\ messages = Append(Append(before, UserMessage(user_input)),
                                        assistant_message)
                   /\ assistant_message.role = "assistant"
                \/ /\ outcome = "failed"
                   /\ messages = Append(before, UserMessage(user_input)) ]_vars
    /\ [][ (pc = "idle" /\ pc' = "idle" /\ turns' # turns) =>
             (outcome' = "stopped" /\ messages' = Append(messages, UserMessage(UserText(turns')))) ]_vars

C16_Witness ==
    /\ pc = "idle"
    /\ turns = 2
    /\ Len(messages) = 3
    /\ messages[1].role = "user"
    /\ messages[2].role = "assistant"
    /\ messages[3].role = "user"

====
